---- MODULE Spec2Model ----
(***************************************************************************)
(* A model of the ViLT vision+language model of mmf/models/vilt.py.        *)
(*                                                                         *)
(* The state is the model object (its task list, head registry, loss       *)
(* registry, the prepare_itm / prepare_mlm flags and the set of attributes *)
(* stored on it), the caller's sample bundle, the value or exception of    *)
(* the last call and the log of module invocations made by that call.      *)
(*                                                                         *)
(* Tensors are modelled by their layout: a 2-D tensor [batch, length] is a *)
(* sequence of rows, the hidden dimension of an embedding is dropped, and  *)
(* an embedding row is the sequence of the tokens it embeds. Python's      *)
(* None is the empty tuple (every tensor has at least one batch row).      *)
(* Masks are floating-point 0/1 tensors, which masked_fill can fill with   *)
(* -inf.                                                                   *)
(* The interpreter is the one the file was written for: assert statements  *)
(* are executed and collections.MutableMapping exists.                     *)
(***************************************************************************)
EXTENDS Integers, Sequences, FiniteSets, TLC

VARIABLES config, pc, tasks, heads, losses, prepare_itm, prepare_mlm,
          attrs, sample, ret, calls

vars == <<config, pc, tasks, heads, losses, prepare_itm, prepare_mlm,
          attrs, sample, ret, calls>>

modelState == <<tasks, heads, losses, prepare_itm, prepare_mlm, attrs>>

(***************************************************************************)
(* Bounds of the model.                                                    *)
(***************************************************************************)
MaxBatch == 2
MaxSeq == 3
MaxTasks == 2
MaxTaskChars == 3

(***************************************************************************)
(* Values.                                                                 *)
(***************************************************************************)
None == << >>

\* float("-inf") of line 138; any value outside the 0/1 range of a mask.
NegInf == -1000

\* fill_value of lines 169 and 175: the ignore label of the MLM objective.
IgnoreLabel == -1

Get(d, key, default) == IF key \in DOMAIN d THEN d[key] ELSE default

Range(s) == {s[i] : i \in DOMAIN s}

(***************************************************************************)
(* Tensor primitives, on [batch, length] layouts.                          *)
(***************************************************************************)
\* t.size()[:-1] of an embedding, t.size() of a 2-D tensor
Size(t) == <<Len(t), Len(t[1])>>

\* torch.ones(size)
Ones(size) == [b \in 1..size[1] |-> [j \in 1..size[2] |-> 1]]

\* torch.full(size, fill_value)
Full(size, v) == [b \in 1..size[1] |-> [j \in 1..size[2] |-> v]]

\* torch.cat((x, y), dim=-1) of 2-D tensors, dim=1 of embeddings
Cat(x, y) == [b \in 1..Len(x) |-> x[b] \o y[b]]

\* t.bool()
Bool(t) == [b \in 1..Len(t) |-> [j \in 1..Len(t[b]) |-> t[b][j] # 0]]

\* ~m
Not(m) == [b \in 1..Len(m) |-> [j \in 1..Len(m[b]) |-> ~m[b][j]]]

\* t.masked_fill(m, v)
MaskedFill(t, m, v) ==
    [b \in 1..Len(t) |-> [j \in 1..Len(t[b]) |-> IF m[b][j] THEN v ELSE t[b][j]]]

\* t[:, None, None, :]
Unsqueeze(t) == [b \in 1..Len(t) |-> << << t[b] >> >>]

\* t[:, k] of a 3-D tensor [batch, k, length] (k counted from 1 here)
Select(t, k) == [b \in 1..Len(t) |-> t[b][k]]

(***************************************************************************)
(* The embedding modules and the shared encoder are built by               *)
(* build_encoder from the configuration.  An embedding keeps the           *)
(* [batch, length] layout of what it embeds and the encoder returns one    *)
(* hidden state per position of its input.                                 *)
(***************************************************************************)
text_embeddings(sl) ==
    [b \in 1..Len(sl.input_ids) |->
        [j \in 1..Len(sl.input_ids[b]) |->
            [mod |-> "text", pos |-> j, tok |-> sl.input_ids[b][j],
             seg |-> sl.segment_ids[b][j]]]]

image_embeddings(sl) ==
    [b \in 1..Len(sl.image) |->
        [j \in 1..Len(sl.image[b]) |->
            [mod |-> "image", pos |-> j, tok |-> sl.image[b][j], seg |-> 0]]]

encoder(embeddings, attention_mask) ==
    [b \in 1..Len(embeddings) |->
        [j \in 1..Len(embeddings[b]) |-> [hs_of |-> embeddings[b][j]]]]

(***************************************************************************)
(* get_attention_mask, lines 114-142.                                      *)
(***************************************************************************)
\* lines 115-134: the combined 0/1 mask, or None
CombinedMaskTextOnes(sl, text_embedding, image_embedding) ==
    LET image_mask == Get(sl, "image_mask", None) IN
    IF image_mask # None /\ sl.input_mask # None
    THEN Cat(sl.input_mask, image_mask)
    ELSE IF image_mask # None
    THEN Cat(image_mask, Ones(Size(image_embedding)))
    ELSE IF sl.input_mask # None
    THEN Cat(Ones(Size(image_embedding)), sl.input_mask)
    ELSE None

CombinedMask(sl, text_embedding, image_embedding) ==
    LET image_mask == Get(sl, "image_mask", None) IN
    IF image_mask # None /\ sl.input_mask # None
    THEN Cat(sl.input_mask, image_mask)
    ELSE IF image_mask # None
    THEN Cat(image_mask, Ones(Size(text_embedding)))
    ELSE IF sl.input_mask # None
    THEN Cat(Ones(Size(image_embedding)), sl.input_mask)
    ELSE None

\* lines 136-140: the additive bias of a combined mask.  Both masked_fill
\* calls take their condition from the combined mask, not from the result
\* of the first fill.
AdditiveMaskChained(attention_mask) ==
    LET filled == MaskedFill(attention_mask, Not(Bool(attention_mask)), NegInf)
    IN  Unsqueeze(MaskedFill(filled, Bool(filled), 0))

AdditiveMask(attention_mask) ==
    Unsqueeze(
        MaskedFill(
            MaskedFill(attention_mask, Not(Bool(attention_mask)), NegInf),
            Bool(attention_mask), 0))

get_attention_mask(sl, text_embedding, image_embedding) ==
    LET attention_mask == CombinedMask(sl, text_embedding, image_embedding) IN
    IF attention_mask # None THEN AdditiveMask(attention_mask) ELSE None

(***************************************************************************)
(* Results, exceptions and the log of module invocations of a call.        *)
(***************************************************************************)
Ok(op, value) == [op |-> op, status |-> "ok", error |-> "", value |-> value]

Raise(op, error) == [op |-> op, status |-> "raise", error |-> error, value |-> None]

\* fields forward and _encode_mlm attach to the sample bundle
LabelFields == {"itm_labels", "mlm_labels", "hs_masked_for_mlm"}

Put(d, key, value) == [k \in DOMAIN d \cup {key} |-> IF k = key THEN value ELSE d[k]]

\* one invocation of a module, with the label fields the bundle carries then
Evt(mod, key, sl, arg) ==
    [mod |-> mod, key |-> key, attached |-> DOMAIN sl \cap LabelFields, arg |-> arg]

(***************************************************************************)
(* build, lines 25-53.                                                     *)
(***************************************************************************)
RECURSIVE Join(_)
Join(chars) == IF chars = << >> THEN "" ELSE chars[1] \o Join(Tail(chars))

\* str.split(sep) on a string given as its sequence of characters
RECURSIVE split(_, _)
split(chars, sep) ==
    LET at == {i \in 1..Len(chars) : chars[i] = sep} IN
    IF at = {} THEN << Join(chars) >>
    ELSE LET i == CHOOSE x \in at : \A y \in at : x <= y IN
         << Join(SubSeq(chars, 1, i - 1)) >>
            \o split(SubSeq(chars, i + 1, Len(chars)), sep)

\* lines 34-36
ConfiguredTasks(cfg) ==
    IF cfg.tasks.str THEN split(cfg.tasks.val, ",") ELSE cfg.tasks.val

\* line 42
HeadType(head_config) == Get(head_config, "type", "mlp")

\* lines 38-49, over the tasks the loop has gone through
PrepareItm(ts, head_configs) ==
    \E i \in 1..Len(ts) : HeadType(head_configs[ts[i]]) \in {"itm", "mlm_itm"}

PrepareMlmOnly(ts, head_configs) ==
    \E i \in 1..Len(ts) : HeadType(head_configs[ts[i]]) \in {"mlm"}

PrepareMlm(ts, head_configs) ==
    \E i \in 1..Len(ts) : HeadType(head_configs[ts[i]]) \in {"mlm", "mlm_itm"}

\* the tasks of ts the loop of lines 40-51 completes: all of them, or those
\* before the first one head_configs[task] raises KeyError for
Completed(ts, head_configs) ==
    LET bad == {i \in 1..Len(ts) : ts[i] \notin DOMAIN head_configs} IN
    IF bad = {} THEN ts
    ELSE SubSeq(ts, 1, (CHOOSE x \in bad : \A y \in bad : x <= y) - 1)

Build ==
    /\ pc = "new"
    /\ LET ts == ConfiguredTasks(config)
           head_configs == config.heads
           done == Completed(ts, head_configs)
           failed == done # ts
       IN  /\ tasks' = ts
           /\ heads' = [t \in Range(done) |->
                           [type |-> HeadType(head_configs[t]),
                            config |-> head_configs[t]]]
           /\ prepare_itm' = PrepareItm(done, head_configs)
           /\ prepare_mlm' = PrepareMlm(done, head_configs)
           /\ attrs' = attrs \cup
                  {"text_embeddings", "image_embeddings", "encoder", "heads",
                   "tasks", "prepare_itm", "prepare_mlm"}
                  \cup (IF failed THEN {} ELSE {"modality_keys", "modality_type"})
           /\ pc' = IF failed THEN "failed" ELSE "built"
           /\ ret' = IF failed THEN Raise("build", "KeyError") ELSE Ok("build", None)
           /\ calls' = << >>
    /\ UNCHANGED <<config, losses, sample>>

(***************************************************************************)
(* init_losses, lines 55-66.                                               *)
(***************************************************************************)
LossKeysAll(ts, loss_configs) == Range(ts)

LossKeys(ts, loss_configs) == Range(ts) \cap DOMAIN loss_configs

RECURSIVE LossWarnings(_, _)
LossWarnings(ts, loss_configs) ==
    IF ts = << >> THEN << >>
    ELSE (IF Head(ts) \in DOMAIN loss_configs THEN << >>
          ELSE << Evt("logger.warning", Head(ts), << >>, None) >>)
         \o LossWarnings(Tail(ts), loss_configs)

InitLosses ==
    /\ pc = "built"
    /\ LET loss_configs == config.losses IN
       /\ losses' = [t \in LossKeys(tasks, loss_configs) |->
                        [config |-> Get(loss_configs, t, None)]]
       /\ calls' = LossWarnings(tasks, loss_configs)
    /\ attrs' = attrs \cup {"losses"}
    /\ pc' = "ready"
    /\ ret' = Ok("init_losses", None)
    /\ UNCHANGED <<config, tasks, heads, prepare_itm, prepare_mlm, sample>>

(***************************************************************************)
(* Label synthesis, lines 144-182.                                         *)
(***************************************************************************)
\* torch.tensor(True, dtype=torch.long) of lines 150-152
TrueLabel == 1

_infer_itm_labels(sl) ==
    [is_correct |-> IF "is_correct" \in DOMAIN sl THEN sl.is_correct ELSE TrueLabel]

MlmTextLabels(sl) ==
    IF "lm_label_ids" \in DOMAIN sl
    THEN IF sl.lm_label_ids.dim > 2
         THEN Select(sl.lm_label_ids.data, 1)
         ELSE sl.lm_label_ids.data
    ELSE Full(Size(sl.input_ids), IgnoreLabel)

_infer_mlm_labels(sl, image_embeddings_size) ==
    LET text == MlmTextLabels(sl)
        image == Full(image_embeddings_size, IgnoreLabel)
    IN  [text |-> text, image |-> image, combined_labels |-> Cat(text, image)]

(***************************************************************************)
(* _encode_mlm, lines 184-202: the bundle it leaves, the invocations it    *)
(* makes and whether its assertion failed.                                 *)
(***************************************************************************)
\* line 185
EncodeMlmAssertFails(sl) == "lm_label_ids" \notin DOMAIN sl

_encode_mlm(sl, image_embedding) ==
    IF EncodeMlmAssertFails(sl)
    THEN [raised |-> TRUE, sl |-> sl, calls |-> << >>]
    ELSE
    LET masked_sample_list ==
            [input_ids |-> Get(sl, "input_ids_masked", sl.input_ids),
             segment_ids |-> sl.segment_ids]
        text_embedding == text_embeddings(masked_sample_list)
        embeddings == Cat(image_embedding, text_embedding)
        attention_mask == get_attention_mask(sl, text_embedding, image_embedding)
        sequence == encoder(embeddings, attention_mask)
    IN  [raised |-> FALSE,
         sl |-> Put(sl, "hs_masked_for_mlm", sequence),
         calls |-> << Evt("text_embeddings", "masked", sl, None),
                      Evt("encoder", "mlm", sl, attention_mask) >>]

(***************************************************************************)
(* forward, lines 68-102.                                                  *)
(***************************************************************************)
\* lines 73-79: the bundle after label preparation, the invocations made
\* and whether _encode_mlm raised
PrepareLabelsAssertFirst(sl, image_embedding) ==
    LET s1 == IF prepare_itm THEN Put(sl, "itm_labels", _infer_itm_labels(sl)) ELSE sl
        s2 == IF prepare_mlm
              THEN Put(s1, "mlm_labels", _infer_mlm_labels(s1, Size(image_embedding)))
              ELSE s1
    IN  IF prepare_mlm /\ EncodeMlmAssertFails(sl)
        THEN [raised |-> TRUE, sl |-> sl, calls |-> << >>]
        ELSE IF prepare_mlm THEN _encode_mlm(s2, image_embedding)
        ELSE [raised |-> FALSE, sl |-> s2, calls |-> << >>]

PrepareLabels(sl, image_embedding) ==
    LET s1 == IF prepare_itm THEN Put(sl, "itm_labels", _infer_itm_labels(sl)) ELSE sl
        s2 == IF prepare_mlm
              THEN Put(s1, "mlm_labels", _infer_mlm_labels(s1, Size(image_embedding)))
              ELSE s1
    IN  IF prepare_mlm THEN _encode_mlm(s2, image_embedding)
        ELSE [raised |-> FALSE, sl |-> s2, calls |-> << >>]

\* line 90: the key of the head invoked
HeadKeyFirstTask(sl) == tasks[1]

HeadKey(sl) == sl.dataset_name

\* line 101: the key of the loss invoked
LossKey(sl) == sl.dataset_name

\* lines 94-102: what forward returns or raises for the head's outputs, and
\* the loss invocation it makes.  A mapping without "scores" is taken for the
\* logits tensor and has no contiguous().
ReturnLogits(sl, outputs) ==
    IF outputs.mapping /\ "losses" \in outputs.keys
    THEN [ret |-> Ok("forward", outputs), calls |-> << >>]
    ELSE IF outputs.mapping /\ "scores" \notin outputs.keys
    THEN [ret |-> Raise("forward", "AttributeError"), calls |-> << >>]
    ELSE [ret |-> Ok("forward", [mapping |-> FALSE, keys |-> {}, by |-> "forward"]),
          calls |-> << >>]

ForwardReturn(sl, outputs) ==
    IF outputs.mapping /\ "losses" \in outputs.keys
    THEN [ret |-> Ok("forward", outputs), calls |-> << >>]
    ELSE IF outputs.mapping /\ "scores" \notin outputs.keys
    THEN [ret |-> Raise("forward", "AttributeError"), calls |-> << >>]
    ELSE IF LossKey(sl) \notin DOMAIN losses
    THEN [ret |-> Raise("forward", "KeyError"), calls |-> << >>]
    ELSE [ret |-> Ok("forward",
                     [mapping |-> TRUE, keys |-> {"losses", "scores"},
                      by |-> "forward"]),
          calls |-> << Evt("losses", LossKey(sl), sl, None) >>]

\* forward on the bundle sl, the invoked head returning outputs
Forward(sl, outputs) ==
    /\ pc = "ready"
    /\ \E text_embedding \in {text_embeddings(sl)},
          image_embedding \in {image_embeddings(sl)} :
       \E p \in {PrepareLabels(sl, image_embedding)} :
       \E attention_mask \in
              {get_attention_mask(p.sl, text_embedding, image_embedding)} :
       LET c0 == << Evt("text_embeddings", "", sl, None),
                    Evt("image_embeddings", "", sl, None) >>
           embeddings == Cat(image_embedding, text_embedding)
           sequence == encoder(embeddings, attention_mask)
           c1 == c0 \o p.calls \o << Evt("encoder", "", p.sl, attention_mask) >>
           r == ForwardReturn(p.sl, outputs)
       IN  /\ sample' = p.sl
           /\ IF p.raised
              THEN /\ ret' = Raise("forward", "AssertionError")
                   /\ calls' = c0 \o p.calls
              ELSE IF HeadKey(p.sl) \notin DOMAIN heads
              THEN /\ ret' = Raise("forward", "KeyError")
                   /\ calls' = c1
              ELSE /\ ret' = r.ret
                   /\ calls' = c1 \o << Evt("heads", HeadKey(p.sl), p.sl, outputs) >>
                                  \o r.calls
    /\ UNCHANGED <<config, pc, tasks, heads, losses, prepare_itm, prepare_mlm, attrs>>

(***************************************************************************)
(* get_attention_mask called on the bundle sl with its two embeddings.     *)
(***************************************************************************)
GetAttentionMaskStored(sl) ==
    /\ pc = "ready"
    /\ sample' = sl
    /\ ret' = Ok("get_attention_mask",
                 get_attention_mask(sl, text_embeddings(sl), image_embeddings(sl)))
    /\ calls' = << >>
    /\ attrs' = attrs \cup {"attention_mask"}
    /\ UNCHANGED <<config, pc, tasks, heads, losses, prepare_itm, prepare_mlm>>

GetAttentionMask(sl) ==
    /\ pc = "ready"
    /\ sample' = sl
    /\ ret' = Ok("get_attention_mask",
                 get_attention_mask(sl, text_embeddings(sl), image_embeddings(sl)))
    /\ calls' = << >>
    /\ UNCHANGED <<config, pc, tasks, heads, losses, prepare_itm, prepare_mlm, attrs>>

(***************************************************************************)
(* get_optimizer_parameters, lines 104-112: the parameter groups, in       *)
(* order.  has_own says whether the encoder built from the configuration   *)
(* has a get_optimizer_parameters of its own.                              *)
(***************************************************************************)
OptimizerGroups(has_own) ==
    << [params |-> "encoder",
        by |-> IF has_own THEN "encoder.get_optimizer_parameters" ELSE "parameters"],
       [params |-> "text_embeddings", by |-> "get_bert_configured_parameters"],
       [params |-> "heads", by |-> "get_bert_configured_parameters"],
       [params |-> "image_embeddings", by |-> "parameters"] >>

GetOptimizerParameters(has_own) ==
    /\ pc = "ready"
    /\ ret' = Ok("get_optimizer_parameters", OptimizerGroups(has_own))
    /\ calls' = << >>
    /\ UNCHANGED <<config, pc, tasks, heads, losses, prepare_itm, prepare_mlm,
                   attrs, sample>>

(***************************************************************************)
(* Configurations.                                                         *)
(***************************************************************************)
TaskNames == {"a", "b"}

\* the characters of a comma-separated task string
TaskChars == {"a", ","}

HeadTypes == {"mlp", "itm", "mlm", "mlm_itm"}

\* a head config, with or without a "type" key
HeadConfigs == {<< >>} \cup {[type |-> ty] : ty \in HeadTypes}

LossConfig == [type |-> "cross_entropy"]

TaskLists == UNION {[1..n -> TaskNames] : n \in 1..MaxTasks}

TaskStrings == UNION {[1..n -> TaskChars] : n \in 1..MaxTaskChars}

TaskSettings ==
    {[str |-> FALSE, val |-> l] : l \in TaskLists}
        \cup {[str |-> TRUE, val |-> s] : s \in TaskStrings}

Configs ==
    {[tasks |-> ts, heads |-> hs, losses |-> [t \in ls |-> LossConfig]] :
        ts \in TaskSettings, hs \in [TaskNames -> HeadConfigs], ls \in SUBSET TaskNames}

\* single-task configurations that prepare MLM labels
MlmConfigs ==
    {[tasks |-> [str |-> FALSE, val |-> << "a" >>],
      heads |-> [t \in TaskNames |-> IF t = "a" THEN [type |-> ty] ELSE << >>],
      losses |-> << >>] :
        ty \in {"mlm", "mlm_itm"}}

\* a single-task configuration with a classifier head and its loss
MaskConfigs ==
    {[tasks |-> [str |-> FALSE, val |-> << "a" >>],
      heads |-> [t \in TaskNames |-> << >>],
      losses |-> [t \in {"a"} |-> LossConfig]]}

(***************************************************************************)
(* Sample bundles.                                                         *)
(***************************************************************************)
DatasetNames == TaskNames \cup {"c"}

\* a masked-out label and the label of a masked token
LabelValues == {IgnoreLabel, 7}

With(d, present, key, value) == IF present THEN Put(d, key, value) ELSE d

Shapes ==
    {<<n, lt, li>> \in (1..MaxBatch) \X (1..MaxSeq) \X (1..MaxSeq) : lt + li <= MaxSeq}

Tensors(n, len, values) == [1..n -> [1..len -> values]]

\* the fields every bundle carries; input_mask may be None
Bundle(shape, dataset_name, input_mask) ==
    [dataset_name |-> dataset_name,
     input_ids |-> [b \in 1..shape[1] |-> [j \in 1..shape[2] |-> 200 + j]],
     segment_ids |-> Full(<<shape[1], shape[2]>>, 0),
     input_mask |-> input_mask,
     image |-> [b \in 1..shape[1] |-> [j \in 1..shape[3] |-> 300 + j]]]

\* lm_label_ids carries its number of dimensions: [batch, length] labels,
\* or a 3-D [batch, 2, length] tensor whose first slice is labels
Labels2D(labels) == [dim |-> 2, data |-> labels]

Labels3D(labels) ==
    [dim |-> 3,
     data |-> [b \in 1..Len(labels) |->
                  << labels[b], [j \in 1..Len(labels[b]) |-> 9] >>]]

\* one text token, one image patch, input_mask all ones, no image_mask
Samples ==
    {With(Bundle(<<1, 1, 1>>, ds, Ones(<<1, 1>>)),
          lm, "lm_label_ids", Labels2D(<< << 7 >> >>)) :
        ds \in DatasetNames, lm \in BOOLEAN}

\* every present/absent combination of the two masks, with every 0/1 content
MaskSamples ==
    UNION {
        {Bundle(sh, "a", im) : im \in {None} \cup Tensors(sh[1], sh[2], {0, 1})}
        \cup
        {Put(Bundle(sh, "a", im), "image_mask", vm) :
            im \in {None} \cup Tensors(sh[1], sh[2], {0, 1}),
            vm \in Tensors(sh[1], sh[3], {0, 1})}
        : sh \in Shapes}

\* every content of a 2-D lm_label_ids (alone, with input_ids_masked, with
\* is_correct), every first slice of a 3-D one, or no lm_label_ids
MlmSamples ==
    UNION {
        {Bundle(sh, "a", Ones(<<sh[1], sh[2]>>))}
        \cup
        {With(With(Put(Bundle(sh, "a", Ones(<<sh[1], sh[2]>>)),
                       "lm_label_ids",
                       IF kind = "3d" THEN Labels3D(lm) ELSE Labels2D(lm)),
                   kind = "masked", "input_ids_masked",
                   Full(<<sh[1], sh[2]>>, 103)),
              kind = "is_correct", "is_correct", [b \in 1..sh[1] |-> 0]) :
            kind \in {"2d", "3d", "masked", "is_correct"},
            lm \in Tensors(sh[1], sh[2], LabelValues)}
        : sh \in Shapes}

\* what a head may return: a mapping with or without "losses" and "scores",
\* or a bare tensor
HeadOutputs ==
    {[mapping |-> TRUE, keys |-> ks, by |-> "head"] : ks \in SUBSET {"losses", "scores"}}
        \cup {[mapping |-> FALSE, keys |-> {}, by |-> "head"]}

(***************************************************************************)
(* The model after construction, and its behaviours.                       *)
(***************************************************************************)
Constructed ==
    /\ pc = "new"
    /\ tasks = << >>
    /\ heads = << >>
    /\ losses = << >>
    /\ prepare_itm = FALSE
    /\ prepare_mlm = FALSE
    /\ attrs = {"config"}
    /\ ret = Ok("__init__", None)
    /\ calls = << >>

\* the caller holds one bundle and calls the model on it
Init ==
    /\ config \in Configs
    /\ sample \in Samples
    /\ Constructed

Next ==
    \/ Build
    \/ InitLosses
    \/ \E outputs \in HeadOutputs : Forward(sample, outputs)
    \/ GetAttentionMask(sample)
    \/ \E has_own \in BOOLEAN : GetOptimizerParameters(has_own)

Spec == Init /\ [][Next]_vars

\* get_attention_mask on bundles with every mask content
InitMask ==
    /\ config \in MaskConfigs
    /\ sample \in MaskSamples
    /\ Constructed

NextMask ==
    \/ Build
    \/ InitLosses
    \/ GetAttentionMask(sample)

SpecMask == InitMask /\ [][NextMask]_vars

\* models that prepare MLM labels, on bundles with every label content
InitMlm ==
    /\ config \in MlmConfigs
    /\ sample \in MlmSamples
    /\ Constructed

SpecMlm == InitMlm /\ [][Next]_vars

(***************************************************************************)
(* Properties.                                                             *)
(***************************************************************************)
AfterForward == ret.op = "forward"

AfterMask == ret.op = "get_attention_mask"

Events(mod) == SelectSeq(calls, LAMBDA e : e.mod = mod)

\* the lengths of the text and of the image sequence of the bundle
TextLen == Len(sample.input_ids[1])

ImageLen == Len(sample.image[1])

BatchSize == Len(sample.input_ids)

HasImageMask == Get(sample, "image_mask", None) # None

HasInputMask == sample.input_mask # None

\* the bias a 0/1 mask value stands for
Bias(v) == IF v = 0 THEN NegInf ELSE 0

\* the 0/1 mask of the bundle in the order of its concatenation by
\* get_attention_mask
Concatenated ==
    CombinedMask(sample, text_embeddings(sample), image_embeddings(sample))

\* the head type the configuration gives a task
ConfiguredType(t) ==
    IF "type" \in DOMAIN config.heads[t] THEN config.heads[t]["type"] ELSE "mlp"

ItmConfigured == \E t \in Range(tasks) : ConfiguredType(t) \in {"itm", "mlm_itm"}

MlmConfigured == \E t \in Range(tasks) : ConfiguredType(t) \in {"mlm", "mlm_itm"}

\* C1: a returned attention mask has shape [batch, 1, 1, L]; its entry
\* [b,0,0,j] is -inf exactly when the combined 0/1 mask is zero at (b,j) and
\* 0 exactly when it is non-zero there; no entry has another value.
C1_AdditiveMaskValues ==
    (AfterMask /\ ret.value # None) =>
        /\ Len(ret.value) = BatchSize
        /\ \A b \in 1..BatchSize :
            /\ Len(ret.value[b]) = 1
            /\ Len(ret.value[b][1]) = 1
            /\ Len(ret.value[b][1][1]) = Len(Concatenated[b])
            /\ Len(ret.value[b][1][1]) = TextLen + ImageLen
            /\ \A j \in 1..Len(Concatenated[b]) :
                /\ ret.value[b][1][1][j] \in {0, NegInf}
                /\ ret.value[b][1][1][j] = NegInf <=> Concatenated[b][j] = 0
                /\ ret.value[b][1][1][j] = 0 <=> Concatenated[b][j] # 0

C1_Witness ==
    /\ AfterMask
    /\ ret.value # None
    /\ BatchSize = 2
    /\ \E j \in 1..(TextLen + ImageLen) : ret.value[2][1][1][j] = NegInf
    /\ \E j \in 1..(TextLen + ImageLen) : ret.value[2][1][1][j] = 0

\* C2 as stated: in all four present/absent combinations of the two masks a
\* mask over image length + text length positions is returned, in which the
\* positions of a missing side have zero bias.
C2_OnesForEveryCombination ==
    AfterMask =>
        /\ ret.value # None
        /\ \A b \in 1..BatchSize :
            /\ Len(ret.value[b][1][1]) = ImageLen + TextLen
            /\ ~HasImageMask =>
                   \A j \in 1..ImageLen : ret.value[b][1][1][j] = 0
            /\ ~HasInputMask =>
                   \A j \in (ImageLen + 1)..(ImageLen + TextLen) :
                       ret.value[b][1][1][j] = 0

\* C2 amended: when exactly one mask is missing, the returned mask covers
\* image length + text length positions and the positions of the missing side
\* (image first, text after it) have zero bias; when both masks are present
\* the mask covers image length + text length positions; when both are
\* missing no mask is returned (None).
C2_OnesForOneMissingSide ==
    AfterMask =>
        /\ (~HasImageMask /\ ~HasInputMask) <=> ret.value = None
        /\ ret.value # None =>
            \A b \in 1..BatchSize :
                /\ Len(ret.value[b][1][1]) = ImageLen + TextLen
                /\ ~HasImageMask =>
                       \A j \in 1..ImageLen : ret.value[b][1][1][j] = 0
                /\ ~HasInputMask =>
                       \A j \in (ImageLen + 1)..(ImageLen + TextLen) :
                           ret.value[b][1][1][j] = 0

C2_Witness ==
    /\ AfterMask
    /\ HasImageMask
    /\ ~HasInputMask
    /\ TextLen = 2
    /\ ret.value # None
    /\ ret.value[1][1][1][1] = NegInf
    /\ ret.value[1][1][1][ImageLen + TextLen] = 0

\* the 0/1 mask value of the token at position j of the sequence given to the
\* encoder (image embeddings, then text embeddings), ones for a missing side
MaskOfToken(b, j) ==
    LET token == Cat(image_embeddings(sample), text_embeddings(sample))[b][j] IN
    IF token.mod = "image"
    THEN IF HasImageMask THEN sample.image_mask[b][token.pos] ELSE 1
    ELSE IF HasInputMask THEN sample.input_mask[b][token.pos] ELSE 1

\* C8: position j of a returned mask is the mask of the token at position j
\* of the encoder's input sequence, image embeddings followed by text
\* embeddings, in every branch that returns a mask.
C8_MaskFollowsSequenceOrder ==
    (AfterMask /\ ret.value # None) =>
        \A b \in 1..BatchSize :
            /\ Len(ret.value[b][1][1]) = ImageLen + TextLen
            /\ \A j \in 1..(ImageLen + TextLen) :
                   ret.value[b][1][1][j] = Bias(MaskOfToken(b, j))

\* the outputs of the head the last forward call invoked
HeadOutputsSeen == Events("heads")[1].arg

\* C3 as stated: a forward call that completes returns a mapping carrying
\* both "losses" and "scores", or the raw logits.
C3_LossesAndScoresOrLogits ==
    (AfterForward /\ ret.status = "ok") =>
        \/ ret.value.mapping /\ {"losses", "scores"} \subseteq ret.value.keys
        \/ ~ret.value.mapping

\* C3 amended: a forward call that completes returns a mapping carrying
\* "losses", never the raw logits: the head's own mapping, unchanged, when
\* that mapping contains "losses" (with "scores" only if the head put it
\* there), and otherwise a new mapping with exactly "losses" and "scores".
C3_MappingWithLosses ==
    (AfterForward /\ ret.status = "ok") =>
        /\ ret.value.mapping
        /\ "losses" \in ret.value.keys
        /\ Len(Events("heads")) = 1
        /\ IF HeadOutputsSeen.mapping /\ "losses" \in HeadOutputsSeen.keys
           THEN ret.value = HeadOutputsSeen
           ELSE ret.value.by = "forward" /\ ret.value.keys = {"losses", "scores"}

C3_Witness ==
    /\ AfterForward
    /\ ret.status = "ok"
    /\ ret.value.by = "head"
    /\ ret.value.keys = {"losses"}

\* C4: with several tasks configured, a forward call invokes at most one
\* head, always the one registered under the sample's dataset_name, and
\* exactly that one when it completes; when the head's output has no
\* "losses" the loss applied is the one registered under the same
\* dataset_name; a dataset_name that is not a configured task raises and
\* invokes no head.
C4_DispatchByDatasetName ==
    AfterForward =>
        /\ Len(Events("heads")) <= 1
        /\ Len(Events("losses")) <= 1
        /\ \A i \in 1..Len(Events("heads")) :
               /\ Events("heads")[i].key = sample.dataset_name
               /\ sample.dataset_name \in Range(tasks)
        /\ \A i \in 1..Len(Events("losses")) :
               /\ Events("losses")[i].key = sample.dataset_name
               /\ Len(Events("heads")) = 1
               /\ ~(HeadOutputsSeen.mapping /\ "losses" \in HeadOutputsSeen.keys)
        /\ ret.status = "ok" =>
               /\ Len(Events("heads")) = 1
               /\ ~(HeadOutputsSeen.mapping /\ "losses" \in HeadOutputsSeen.keys)
                      => Len(Events("losses")) = 1
        /\ sample.dataset_name \notin Range(tasks) =>
               /\ ret.status = "raise"
               /\ Events("heads") = << >>
               /\ Events("losses") = << >>

C4_Witness ==
    /\ AfterForward
    /\ Len(tasks) = 2
    /\ tasks[1] # tasks[2]
    /\ sample.dataset_name = tasks[2]
    /\ ret.status = "ok"
    /\ Len(Events("losses")) = 1
    /\ DOMAIN losses = {"a", "b"}

\* C5: once build and init_losses have run, the head registry (keys exactly
\* the configured tasks), the loss registry (keys exactly the configured
\* tasks with a loss config), the task list, the prepare flags and the set
\* of attributes stored on the model are left unchanged by every call, and
\* no attention mask is stored on the model.
C5_ModelUnchangedAfterInit ==
    [][/\ pc' = "ready" =>
            /\ DOMAIN heads' = Range(tasks')
            /\ DOMAIN losses' = Range(tasks') \cap DOMAIN config'.losses
            /\ tasks' = ConfiguredTasks(config')
            /\ "attention_mask" \notin attrs'
       /\ pc = "ready" =>
            /\ pc' = "ready"
            /\ modelState' = modelState
            /\ config' = config]_vars

C5_Witness ==
    /\ pc = "ready"
    /\ AfterForward
    /\ ret.status = "ok"
    /\ Len(Events("encoder")) = 2
    /\ Events("encoder")[2].arg # None
    /\ Len(tasks) = 2
    /\ DOMAIN losses = {"b"}

\* C6: forward attaches itm_labels to the bundle iff some configured task has
\* head type itm or mlm_itm, and mlm_labels iff some configured task has head
\* type mlm or mlm_itm (no type counts as mlp), whatever the sample's
\* dataset; every attached label is on the bundle at each call of the shared
\* encoder.
C6_LabelsFollowConfiguredHeads ==
    AfterForward =>
        /\ "itm_labels" \in DOMAIN sample <=> ItmConfigured
        /\ "mlm_labels" \in DOMAIN sample <=> MlmConfigured
        /\ \A i \in 1..Len(Events("encoder")) :
               /\ "itm_labels" \in Events("encoder")[i].attached <=> ItmConfigured
               /\ "mlm_labels" \in Events("encoder")[i].attached <=> MlmConfigured

C6_Witness ==
    /\ AfterForward
    /\ ret.status = "ok"
    /\ sample.dataset_name \in Range(tasks)
    /\ ConfiguredType(sample.dataset_name) = "mlp"
    /\ "type" \notin DOMAIN config.heads[sample.dataset_name]
    /\ {"itm_labels", "mlm_labels"} \subseteq DOMAIN sample
    /\ Len(Events("encoder")) = 2
    /\ {"itm_labels", "mlm_labels"} \subseteq Events("encoder")[1].attached

\* the sample's task is configured without a loss config and its head ran
LossLessTaskRan ==
    /\ AfterForward
    /\ sample.dataset_name \in Range(tasks)
    /\ sample.dataset_name \notin DOMAIN config.losses
    /\ Len(Events("heads")) = 1

\* init_losses left every task without a loss config out of the registry,
\* with a warning for each
LossLessTasksSkipped ==
    /\ pc = "ready" =>
           \A t \in Range(tasks) \ DOMAIN config.losses : t \notin DOMAIN losses
    /\ ret.op = "init_losses" =>
           /\ ret.status = "ok"
           /\ \A t \in Range(tasks) \ DOMAIN config.losses :
                  \E i \in 1..Len(calls) :
                      calls[i].mod = "logger.warning" /\ calls[i].key = t

\* C7 as stated: a task without a loss config is skipped by init_losses with
\* a warning; a forward call for it completes only if the head returns a
\* mapping with "losses", and otherwise raises the loss registry's missing-key
\* error, with no result and no loss applied.
C7_MissingLossIsKeyError ==
    /\ LossLessTasksSkipped
    /\ LossLessTaskRan =>
           IF HeadOutputsSeen.mapping /\ "losses" \in HeadOutputsSeen.keys
           THEN ret.status = "ok" /\ ret.value = HeadOutputsSeen
           ELSE /\ ret.status = "raise"
                /\ ret.error = "KeyError"
                /\ ret.value = None
                /\ Events("losses") = << >>

\* C7 amended: as stated, except that the error raised when the head returns
\* a mapping with neither "losses" nor "scores" is the attribute error of
\* treating that mapping as the logits tensor, raised before the loss
\* registry is looked up; the missing-key error is raised when the head
\* returns a tensor or a mapping with "scores".
C7_MissingLossRaises ==
    /\ LossLessTasksSkipped
    /\ LossLessTaskRan =>
           IF HeadOutputsSeen.mapping /\ "losses" \in HeadOutputsSeen.keys
           THEN ret.status = "ok" /\ ret.value = HeadOutputsSeen
           ELSE /\ ret.status = "raise"
                /\ ret.error =
                       IF HeadOutputsSeen.mapping /\ "scores" \notin HeadOutputsSeen.keys
                       THEN "AttributeError" ELSE "KeyError"
                /\ ret.value = None
                /\ Events("losses") = << >>

C7_Witness ==
    /\ LossLessTaskRan
    /\ HeadOutputsSeen.mapping
    /\ HeadOutputsSeen.keys = {"scores"}
    /\ ret.error = "KeyError"
    /\ DOMAIN losses # {}

\* the MLM text labels the bundle's lm_label_ids give token k of row b
LabelOfTextToken(b, k) ==
    IF sample.lm_label_ids.dim > 2
    THEN sample.lm_label_ids.data[b][1][k]
    ELSE sample.lm_label_ids.data[b][k]

\* C9: the combined MLM labels have length text length + image length and
\* line up with the hidden states of hs_masked_for_mlm: the label at the
\* index of an image position is -1, the label at the index of a text token
\* is that token's lm_label_ids value.
C9_LabelsLineUpWithMaskedSequence ==
    (AfterForward /\ "hs_masked_for_mlm" \in DOMAIN sample) =>
        \A b \in 1..BatchSize :
            /\ Len(sample.mlm_labels.combined_labels[b]) = TextLen + ImageLen
            /\ Len(sample.hs_masked_for_mlm[b]) = TextLen + ImageLen
            /\ \A j \in 1..(TextLen + ImageLen) :
                   LET token == sample.hs_masked_for_mlm[b][j].hs_of IN
                   sample.mlm_labels.combined_labels[b][j] =
                       IF token.mod = "image" THEN IgnoreLabel
                       ELSE LabelOfTextToken(b, token.pos)

\* C10: with MLM preparation on, forward on a bundle without lm_label_ids
\* raises the assertion error of _encode_mlm without any call of the shared
\* encoder, after mlm_labels (text labels all -1) and, with ITM preparation
\* on, itm_labels have been attached to the bundle.
C10_AssertionAfterMutation ==
    (AfterForward /\ prepare_mlm /\ "lm_label_ids" \notin DOMAIN sample) =>
        /\ ret.status = "raise"
        /\ ret.error = "AssertionError"
        /\ Events("encoder") = << >>
        /\ Events("heads") = << >>
        /\ "mlm_labels" \in DOMAIN sample
        /\ sample.mlm_labels.text = Full(<<BatchSize, TextLen>>, IgnoreLabel)
        /\ prepare_itm => "itm_labels" \in DOMAIN sample

C10_Witness ==
    /\ AfterForward
    /\ prepare_mlm
    /\ prepare_itm
    /\ "lm_label_ids" \notin DOMAIN sample
    /\ ret.error = "AssertionError"
    /\ {"mlm_labels", "itm_labels"} \subseteq DOMAIN sample

====
